---- MODULE Spec2Model ----
(***************************************************************************)
(* Model of reconstruct_pmvs2.py: the builders that prepare a PMVS2        *)
(* working directory (visualize/, txt/, option.txt, vis.dat), the call of  *)
(* the pmvs2 binary, and the relocation of its output.                     *)
(*                                                                         *)
(* Files are modelled by what the claims read from them: vis.dat and       *)
(* option.txt as sequences of token lines, the per-camera .ppm and .txt    *)
(* files as the sets of camera indices for which they exist.  Distortion   *)
(* coefficients are integers in units of 1e-10, so the tolerance 1e-9 of   *)
(* the assertions is 10.  Python floats in the options are integers in     *)
(* thousandths (threshold 0.6 is 600) tagged with their Python type.       *)
(***************************************************************************)
EXTENDS Integers, Sequences, FiniteSets, TLC

\* ---- bounds -------------------------------------------------------------
\* cameras (png files) in a run_pmvs run
MaxCameras == 3
\* options.numNeighbors in a run_pmvs run
MaxNeighbors == 3
\* cameras when write_vis_file_ring is examined alone
MaxRing == 5
\* neighbours when write_vis_file_ring is examined alone
MaxRingNeighbors == 5

\* ---- program constants --------------------------------------------------
\* .000000001 in units of 1e-10
Tolerance == 10
\* numCameras of the optionsDict presets
PresetCameras == 12

VARIABLES
    numCameras,     \* len(list(imagesPath.glob('*.png')))
    distCoffs,      \* camera index -> the five coefficients load_intrinsics returns
    options,        \* the PMVS2Options instance: attribute name -> Python value
    tempMode,       \* run_pmvs was called with workDirectory=None
    pc,             \* position of the orchestrator
    workDirExists,  \* the working directory exists on disk
    subdirs,        \* subdirectories of the working directory
    ppmFiles,       \* camera indices i with visualize/%08i.ppm
    txtFiles,       \* camera indices i with txt/%08i.txt
    workFiles,      \* other files of the working directory
    optionLines,    \* content of option.txt
    visLines,       \* content of vis.dat
    convI,          \* loop variable of set_up_visualize_subdirectory
    txtI,           \* loop variable of set_up_txt_subdirectory
    optI,           \* position of the loop over vars(self).items()
    visC,           \* center_camera of write_vis_file_ring
    running,        \* external processes that are currently running
    convertCalls,   \* camera indices for which convert was invoked, in order
    convertStatus,  \* exit statuses of the finished convert processes, in order
    pmvsCalls,      \* number of invocations of pmvs2
    pmvsOutcome,    \* how the pmvs2 process ended
    runtimeWritten, \* the runtime-report file was written by this run
    destWritten,    \* destDir/destFile was created by this run
    failure         \* the exception that ended the run

vars == <<numCameras, distCoffs, options, tempMode, pc, workDirExists, subdirs,
          ppmFiles, txtFiles, workFiles, optionLines, visLines, convI, txtI,
          optI, visC, running, convertCalls, convertStatus, pmvsCalls,
          pmvsOutcome, runtimeWritten, destWritten, failure>>

Abs(x) == IF x < 0 THEN -x ELSE x

\* ---- Python values of the options ----------------------------------------
PyInt(n) == [type |-> "int", val |-> <<n>>]
PyFloat(thousandths) == [type |-> "float", val |-> <<thousandths>>]
PyList(s) == [type |-> "list", val |-> s]
\* True is 1, False is 0
PyBool(b) == [type |-> "bool", val |-> <<b>>]
PyTuple(s) == [type |-> "tuple", val |-> s]

\* vars(self): the attributes in the order __init__ assigns them
KeyOrder == <<"level", "csize", "threshold", "wsize", "minImageNum", "CPU",
              "useVisData", "sequence", "numNeighbors", "timages", "oimages">>

Keys == {KeyOrder[i] : i \in 1..Len(KeyOrder)}

\* the default arguments of __init__; timages=None becomes [-1, 0, numCameras]
DefaultOption(nCams, key) ==
    CASE key = "level" -> PyInt(1)
      [] key = "csize" -> PyInt(2)
      [] key = "threshold" -> PyFloat(600)
      [] key = "wsize" -> PyInt(7)
      [] key = "minImageNum" -> PyInt(2)
      [] key = "CPU" -> PyInt(8)
      [] key = "useVisData" -> PyInt(1)
      [] key = "sequence" -> PyInt(-1)
      [] key = "timages" -> PyList(<<-1, 0, nCams>>)
      [] key = "oimages" -> PyInt(0)
      [] key = "numNeighbors" -> PyInt(2)

\* PMVS2Options(numCameras, **given)
PMVS2Options(nCams, given) ==
    [key \in Keys |-> IF key \in DOMAIN given THEN given[key]
                      ELSE DefaultOption(nCams, key)]

\* the lines one iteration of the loop of write_options_file writes
OptionLine(opts, key) ==
    IF key = "numNeighbors" THEN <<>>
    ELSE IF opts[key].type \in {"int", "float"} THEN <<<<key>> \o opts[key].val>>
    ELSE IF opts[key].type = "list" THEN <<<<key>> \o opts[key].val>>
    ELSE <<>>

\* option.txt after the first n iterations of that loop
RECURSIVE WrittenOptionLines(_, _)
WrittenOptionLines(opts, n) ==
    IF n = 0 THEN <<>>
    ELSE WrittenOptionLines(opts, n - 1) \o OptionLine(opts, KeyOrder[n])

\* ---- the ring of write_vis_file_ring --------------------------------------
\* VisLine with the rounding of the two halves exchanged
VisLineMut(c, n, k) ==
    LET numPositiveNeighbors == k \div 2
        numNegativeNeighbors == (k \div 2) + (k % 2)
        pos == [i \in 1..numPositiveNeighbors |-> (c + (i - 1) + 1) % n]
        neg == [i \in 1..numNegativeNeighbors |-> (c - (i - 1) - 1) % n]
    IN  <<c, k>> \o pos \o neg

\* one per-camera line: center_camera, numNeighbors, successors, predecessors
VisLine(c, n, k) ==
    LET numPositiveNeighbors == (k \div 2) + (k % 2)
        numNegativeNeighbors == k \div 2
        pos == [i \in 1..numPositiveNeighbors |-> (c + (i - 1) + 1) % n]
        neg == [i \in 1..numNegativeNeighbors |-> (c - (i - 1) - 1) % n]
    IN  <<c, k>> \o pos \o neg

\* ---- the distortion assertions of set_up_txt_subdirectory ------------------
Undistorted(d) ==
    /\ Abs(d[1]) < Tolerance
    /\ Abs(d[2]) < Tolerance
    /\ Abs(d[3]) < Tolerance
    /\ Abs(d[4]) < Tolerance
    /\ Abs(d[5]) < Tolerance

\* coefficient vectors load_intrinsics may return
DistChoices == { <<0, 0, 0, 0, 0>>,
                 <<9, -9, 9, -9, 9>>,
                 <<10, 0, 0, 0, 0>>,
                 <<0, 0, 0, 0, -11>> }

NumNeighbors == options["numNeighbors"].val[1]

ConvertProc(i) == <<"convert", i>>
PmvsProc == <<"pmvs2", 0>>

\* ---- leaving the inner run_pmvs frame --------------------------------------
\* an exception propagates: to the caller, or first through the with block
RaisedPc == IF tempMode THEN "with_exit_exc" ELSE "raised"
\* run_pmvs falls off its end
ReturnedPc == IF tempMode THEN "with_exit_ok" ELSE "returned"

Aborted == pc \in {"with_exit_exc", "raised"}
Terminated == pc \in {"returned", "raised"}

\* ---- initial states -------------------------------------------------------
\* the call run_pmvs(imagesPath, ..., options, workDirectory)
Init ==
    /\ numCameras \in 0..MaxCameras
    /\ distCoffs \in [0..(numCameras - 1) -> DistChoices]
    /\ \E k \in 0..MaxNeighbors :
          options = PMVS2Options(numCameras, "numNeighbors" :> PyInt(k))
    /\ tempMode \in BOOLEAN
    /\ pc = IF tempMode THEN "with_enter" ELSE "visualize"
    /\ workDirExists = ~tempMode
    /\ subdirs = {}
    /\ ppmFiles = {}
    /\ txtFiles = {}
    /\ workFiles = {}
    /\ optionLines = <<>>
    /\ visLines = <<>>
    /\ convI = 0
    /\ txtI = 0
    /\ optI = 1
    /\ visC = 0
    /\ running = {}
    /\ convertCalls = <<>>
    /\ convertStatus = <<>>
    /\ pmvsCalls = 0
    /\ pmvsOutcome = "none"
    /\ runtimeWritten = FALSE
    /\ destWritten = FALSE
    /\ failure = "none"

\* ---- run_pmvs with no workDirectory ---------------------------------------
\* with TemporaryDirectory() as workDirectory: run_pmvs(..., workDirectory)
EnterTemporaryDirectory ==
    /\ pc = "with_enter"
    /\ workDirExists' = TRUE
    /\ pc' = "visualize"
    /\ UNCHANGED <<numCameras, distCoffs, options, tempMode, subdirs, ppmFiles,
                   txtFiles, workFiles, optionLines, visLines, convI, txtI,
                   optI, visC, running, convertCalls, convertStatus, pmvsCalls,
                   pmvsOutcome, runtimeWritten, destWritten, failure>>

\* ExitTemporaryDirectory that cleans up only when the block ends normally
ExitTemporaryDirectoryMut ==
    /\ pc \in {"with_exit_ok", "with_exit_exc"}
    /\ IF pc = "with_exit_ok"
       THEN /\ workDirExists' = FALSE
            /\ subdirs' = {}
            /\ ppmFiles' = {}
            /\ txtFiles' = {}
            /\ workFiles' = {}
            /\ optionLines' = <<>>
            /\ visLines' = <<>>
       ELSE UNCHANGED <<workDirExists, subdirs, ppmFiles, txtFiles, workFiles,
                        optionLines, visLines>>
    /\ pc' = IF pc = "with_exit_ok" THEN "returned" ELSE "raised"
    /\ UNCHANGED <<numCameras, distCoffs, options, tempMode, convI, txtI, optI,
                   visC, running, convertCalls, convertStatus, pmvsCalls,
                   pmvsOutcome, runtimeWritten, destWritten, failure>>

\* the with block is left, normally or by an exception: the directory and
\* everything in it is removed, then run_pmvs returns or the exception goes on
ExitTemporaryDirectory ==
    /\ pc \in {"with_exit_ok", "with_exit_exc"}
    /\ workDirExists' = FALSE
    /\ subdirs' = {}
    /\ ppmFiles' = {}
    /\ txtFiles' = {}
    /\ workFiles' = {}
    /\ optionLines' = <<>>
    /\ visLines' = <<>>
    /\ pc' = IF pc = "with_exit_ok" THEN "returned" ELSE "raised"
    /\ UNCHANGED <<numCameras, distCoffs, options, tempMode, convI, txtI, optI,
                   visC, running, convertCalls, convertStatus, pmvsCalls,
                   pmvsOutcome, runtimeWritten, destWritten, failure>>

\* ---- set_up_visualize_subdirectory ----------------------------------------
MkdirVisualize ==
    /\ pc = "visualize"
    /\ subdirs' = subdirs \cup {"visualize"}
    /\ convI' = 0
    /\ pc' = IF numCameras > 0 THEN "convert_loop" ELSE "txt"
    /\ UNCHANGED <<numCameras, distCoffs, options, tempMode, workDirExists,
                   ppmFiles, txtFiles, workFiles, optionLines, visLines, txtI,
                   optI, visC, running, convertCalls, convertStatus, pmvsCalls,
                   pmvsOutcome, runtimeWritten, destWritten, failure>>

\* StartConvert that starts the process and does not wait for it
StartConvertMut ==
    /\ pc = "convert_loop"
    /\ convI < numCameras
    /\ running' = running \cup {ConvertProc(convI)}
    /\ convertCalls' = Append(convertCalls, convI)
    /\ convI' = convI + 1
    /\ pc' = IF convI + 1 < numCameras THEN "convert_loop" ELSE "txt"
    /\ UNCHANGED <<numCameras, distCoffs, options, tempMode, workDirExists,
                   subdirs, ppmFiles, txtFiles, workFiles, optionLines,
                   visLines, txtI, optI, visC, convertStatus, pmvsCalls,
                   pmvsOutcome, runtimeWritten, destWritten, failure>>

\* subprocess.check_output(['convert', ...]) starts the process and blocks
StartConvert ==
    /\ pc = "convert_loop"
    /\ convI < numCameras
    /\ running' = running \cup {ConvertProc(convI)}
    /\ convertCalls' = Append(convertCalls, convI)
    /\ pc' = "convert_wait"
    /\ UNCHANGED <<numCameras, distCoffs, options, tempMode, workDirExists,
                   subdirs, ppmFiles, txtFiles, workFiles, optionLines,
                   visLines, convI, txtI, optI, visC, convertStatus, pmvsCalls,
                   pmvsOutcome, runtimeWritten, destWritten, failure>>

\* FinishConvert that does not look at the exit status
FinishConvertMut ==
    /\ pc = "convert_wait"
    /\ ConvertProc(convI) \in running
    /\ \E status \in {0, 1} :
          /\ running' = running \ {ConvertProc(convI)}
          /\ convertStatus' = Append(convertStatus, status)
          /\ ppmFiles' = IF status = 0 THEN ppmFiles \cup {convI} ELSE ppmFiles
          /\ convI' = convI + 1
          /\ pc' = IF convI + 1 < numCameras THEN "convert_loop" ELSE "txt"
          /\ UNCHANGED failure
    /\ UNCHANGED <<numCameras, distCoffs, options, tempMode, workDirExists,
                   subdirs, txtFiles, workFiles, optionLines, visLines, txtI,
                   optI, visC, convertCalls, pmvsCalls, pmvsOutcome,
                   runtimeWritten, destWritten>>

\* the convert process exits; check_output raises on a non-zero status
FinishConvert ==
    /\ pc = "convert_wait"
    /\ ConvertProc(convI) \in running
    /\ \E status \in {0, 1} :
          /\ running' = running \ {ConvertProc(convI)}
          /\ convertStatus' = Append(convertStatus, status)
          /\ IF status = 0
             THEN /\ ppmFiles' = ppmFiles \cup {convI}
                  /\ convI' = convI + 1
                  /\ pc' = IF convI + 1 < numCameras THEN "convert_loop" ELSE "txt"
                  /\ UNCHANGED failure
             ELSE /\ failure' = "convert"
                  /\ pc' = RaisedPc
                  /\ UNCHANGED <<ppmFiles, convI>>
    /\ UNCHANGED <<numCameras, distCoffs, options, tempMode, workDirExists,
                   subdirs, txtFiles, workFiles, optionLines, visLines, txtI,
                   optI, visC, convertCalls, pmvsCalls, pmvsOutcome,
                   runtimeWritten, destWritten>>

\* ---- set_up_txt_subdirectory ----------------------------------------------
MkdirTxt ==
    /\ pc = "txt"
    /\ subdirs' = subdirs \cup {"txt"}
    /\ txtI' = 0
    /\ pc' = IF numCameras > 0 THEN "txt_loop" ELSE "models"
    /\ UNCHANGED <<numCameras, distCoffs, options, tempMode, workDirExists,
                   ppmFiles, txtFiles, workFiles, optionLines, visLines, convI,
                   optI, visC, running, convertCalls, convertStatus, pmvsCalls,
                   pmvsOutcome, runtimeWritten, destWritten, failure>>

\* one iteration: load the intrinsics, assert, compute and save the matrix
WriteProjectionFile ==
    /\ pc = "txt_loop"
    /\ txtI < numCameras
    /\ IF Undistorted(distCoffs[txtI])
       THEN /\ txtFiles' = txtFiles \cup {txtI}
            /\ txtI' = txtI + 1
            /\ pc' = IF txtI + 1 < numCameras THEN "txt_loop" ELSE "models"
            /\ UNCHANGED failure
       ELSE /\ failure' = "distortion"
            /\ pc' = RaisedPc
            /\ UNCHANGED <<txtFiles, txtI>>
    /\ UNCHANGED <<numCameras, distCoffs, options, tempMode, workDirExists,
                   subdirs, ppmFiles, workFiles, optionLines, visLines, convI,
                   optI, visC, running, convertCalls, convertStatus, pmvsCalls,
                   pmvsOutcome, runtimeWritten, destWritten>>

\* ---- run_pmvs: models directory -------------------------------------------
MkdirModels ==
    /\ pc = "models"
    /\ subdirs' = subdirs \cup {"models"}
    /\ pc' = "options_open"
    /\ UNCHANGED <<numCameras, distCoffs, options, tempMode, workDirExists,
                   ppmFiles, txtFiles, workFiles, optionLines, visLines, convI,
                   txtI, optI, visC, running, convertCalls, convertStatus,
                   pmvsCalls, pmvsOutcome, runtimeWritten, destWritten, failure>>

\* ---- PMVS2Options.write_options_file --------------------------------------
\* optionsFilePath.open('w')
OpenOptionsFile ==
    /\ pc = "options_open"
    /\ workFiles' = workFiles \cup {"option.txt"}
    /\ optionLines' = <<>>
    /\ optI' = 1
    /\ pc' = "options_loop"
    /\ UNCHANGED <<numCameras, distCoffs, options, tempMode, workDirExists,
                   subdirs, ppmFiles, txtFiles, visLines, convI, txtI, visC,
                   running, convertCalls, convertStatus, pmvsCalls, pmvsOutcome,
                   runtimeWritten, destWritten, failure>>

\* one iteration of the loop over vars(self).items()
WriteOptionLine ==
    /\ pc = "options_loop"
    /\ optI <= Len(KeyOrder)
    /\ optionLines' = optionLines \o OptionLine(options, KeyOrder[optI])
    /\ optI' = optI + 1
    /\ pc' = IF optI + 1 <= Len(KeyOrder) THEN "options_loop" ELSE "vis"
    /\ UNCHANGED <<numCameras, distCoffs, options, tempMode, workDirExists,
                   subdirs, ppmFiles, txtFiles, workFiles, visLines, convI,
                   txtI, visC, running, convertCalls, convertStatus, pmvsCalls,
                   pmvsOutcome, runtimeWritten, destWritten, failure>>

\* ---- write_vis_file_ring ---------------------------------------------------
\* open the file, write the two header lines, check the two assertions
OpenVisFile ==
    /\ pc = "vis"
    /\ workFiles' = workFiles \cup {"vis.dat"}
    /\ visLines' = <<"VISDATA", numCameras>>
    /\ IF NumNeighbors >= 1 /\ NumNeighbors + 1 # 0
       THEN /\ visC' = 0
            /\ pc' = IF numCameras > 0 THEN "vis_loop" ELSE "pmvs_start"
            /\ UNCHANGED failure
       ELSE /\ failure' = "vis_assert"
            /\ pc' = RaisedPc
            /\ UNCHANGED visC
    /\ UNCHANGED <<numCameras, distCoffs, options, tempMode, workDirExists,
                   subdirs, ppmFiles, txtFiles, optionLines, convI, txtI, optI,
                   running, convertCalls, convertStatus, pmvsCalls, pmvsOutcome,
                   runtimeWritten, destWritten>>

\* one iteration of the loop over center_camera
WriteVisLine ==
    /\ pc = "vis_loop"
    /\ visC < numCameras
    /\ visLines' = Append(visLines, VisLine(visC, numCameras, NumNeighbors))
    /\ visC' = visC + 1
    /\ pc' = IF visC + 1 < numCameras THEN "vis_loop" ELSE "pmvs_start"
    /\ UNCHANGED <<numCameras, distCoffs, options, tempMode, workDirExists,
                   subdirs, ppmFiles, txtFiles, workFiles, optionLines, convI,
                   txtI, optI, running, convertCalls, convertStatus, pmvsCalls,
                   pmvsOutcome, runtimeWritten, destWritten, failure>>

\* ---- run_pmvs: the reconstruction binary -----------------------------------
\* subprocess.check_output(['pmvs2', './', 'option.txt']) starts and blocks
StartPmvs ==
    /\ pc = "pmvs_start"
    /\ running' = running \cup {PmvsProc}
    /\ pmvsCalls' = pmvsCalls + 1
    /\ pc' = "pmvs_wait"
    /\ UNCHANGED <<numCameras, distCoffs, options, tempMode, workDirExists,
                   subdirs, ppmFiles, txtFiles, workFiles, optionLines,
                   visLines, convI, txtI, optI, visC, convertCalls,
                   convertStatus, pmvsOutcome, runtimeWritten, destWritten,
                   failure>>

\* pmvs2 exits: with a non-zero status, or with status 0 having written
\* models/option.txt.ply or not
FinishPmvs ==
    /\ pc = "pmvs_wait"
    /\ PmvsProc \in running
    /\ \E outcome \in {"fail", "ok_ply", "ok_noply"} :
          /\ running' = running \ {PmvsProc}
          /\ pmvsOutcome' = outcome
          /\ workFiles' = IF outcome = "ok_ply"
                          THEN workFiles \cup {"models/option.txt.ply"}
                          ELSE workFiles
          /\ IF outcome = "fail"
             THEN /\ failure' = "pmvs"
                  /\ pc' = RaisedPc
             ELSE /\ pc' = "runtime"
                  /\ UNCHANGED failure
    /\ UNCHANGED <<numCameras, distCoffs, options, tempMode, workDirExists,
                   subdirs, ppmFiles, txtFiles, optionLines, visLines, convI,
                   txtI, optI, visC, convertCalls, convertStatus, pmvsCalls,
                   runtimeWritten, destWritten>>

\* ---- run_pmvs: runtime report and relocation -------------------------------
\* WriteRuntimeFile that goes on without writing the report
WriteRuntimeFileMut ==
    /\ pc = "runtime"
    /\ pc' = "check_ply"
    /\ UNCHANGED <<numCameras, distCoffs, options, tempMode, workDirExists,
                   subdirs, ppmFiles, txtFiles, workFiles, optionLines,
                   visLines, convI, txtI, optI, visC, running, convertCalls,
                   convertStatus, pmvsCalls, pmvsOutcome, runtimeWritten,
                   destWritten, failure>>

WriteRuntimeFile ==
    /\ pc = "runtime"
    /\ runtimeWritten' = TRUE
    /\ pc' = "check_ply"
    /\ UNCHANGED <<numCameras, distCoffs, options, tempMode, workDirExists,
                   subdirs, ppmFiles, txtFiles, workFiles, optionLines,
                   visLines, convI, txtI, optI, visC, running, convertCalls,
                   convertStatus, pmvsCalls, pmvsOutcome, destWritten, failure>>

\* MovePly that only prints when the artifact is missing, and returns
MovePlyMut ==
    /\ pc = "check_ply"
    /\ IF "models/option.txt.ply" \in workFiles
       THEN /\ workFiles' = workFiles \ {"models/option.txt.ply"}
            /\ destWritten' = TRUE
       ELSE UNCHANGED <<workFiles, destWritten>>
    /\ pc' = ReturnedPc
    /\ UNCHANGED <<numCameras, distCoffs, options, tempMode, workDirExists,
                   subdirs, ppmFiles, txtFiles, optionLines, visLines, convI,
                   txtI, optI, visC, running, convertCalls, convertStatus,
                   pmvsCalls, pmvsOutcome, runtimeWritten, failure>>

\* plyPath.is_file(): rename to destPath, or assert False
MovePly ==
    /\ pc = "check_ply"
    /\ IF "models/option.txt.ply" \in workFiles
       THEN /\ workFiles' = workFiles \ {"models/option.txt.ply"}
            /\ destWritten' = TRUE
            /\ pc' = ReturnedPc
            /\ UNCHANGED failure
       ELSE /\ failure' = "missing_ply"
            /\ pc' = RaisedPc
            /\ UNCHANGED <<workFiles, destWritten>>
    /\ UNCHANGED <<numCameras, distCoffs, options, tempMode, workDirExists,
                   subdirs, ppmFiles, txtFiles, optionLines, visLines, convI,
                   txtI, optI, visC, running, convertCalls, convertStatus,
                   pmvsCalls, pmvsOutcome, runtimeWritten>>

Next ==
    \/ EnterTemporaryDirectory
    \/ ExitTemporaryDirectory
    \/ MkdirVisualize
    \/ StartConvert
    \/ FinishConvert
    \/ MkdirTxt
    \/ WriteProjectionFile
    \/ MkdirModels
    \/ OpenOptionsFile
    \/ WriteOptionLine
    \/ OpenVisFile
    \/ WriteVisLine
    \/ StartPmvs
    \/ FinishPmvs
    \/ WriteRuntimeFile
    \/ MovePly

Spec == Init /\ [][Next]_vars

\* ---- write_vis_file_ring on its own --------------------------------------
\* run_pmvs has reached the call of write_vis_file_ring (line 209) in a
\* caller-supplied working directory: every camera was converted, every
\* projection file and option.txt are written
InitVis ==
    /\ numCameras \in 0..MaxRing
    /\ distCoffs = [c \in 0..(numCameras - 1) |-> <<0, 0, 0, 0, 0>>]
    /\ \E k \in 0..MaxRingNeighbors :
          options = PMVS2Options(numCameras, "numNeighbors" :> PyInt(k))
    /\ tempMode = FALSE
    /\ pc = "vis"
    /\ workDirExists = TRUE
    /\ subdirs = {"visualize", "txt", "models"}
    /\ ppmFiles = 0..(numCameras - 1)
    /\ txtFiles = 0..(numCameras - 1)
    /\ workFiles = {"option.txt"}
    /\ optionLines = WrittenOptionLines(options, Len(KeyOrder))
    /\ visLines = <<>>
    /\ convI = numCameras
    /\ txtI = numCameras
    /\ optI = Len(KeyOrder) + 1
    /\ visC = 0
    /\ running = {}
    /\ convertCalls = [i \in 1..numCameras |-> i - 1]
    /\ convertStatus = [i \in 1..numCameras |-> 0]
    /\ pmvsCalls = 0
    /\ pmvsOutcome = "none"
    /\ runtimeWritten = FALSE
    /\ destWritten = FALSE
    /\ failure = "none"

NextVis ==
    \/ OpenVisFile
    \/ WriteVisLine

SpecVis == InitVis /\ [][NextVis]_vars

\* ---- write_options_file on its own ----------------------------------------
\* values a caller may give for an option
PyValues == { PyInt(0), PyInt(4), PyFloat(700), PyList(<<0, 1>>),
              PyBool(1), PyTuple(<<0, 1>>) }

\* keyword arguments of PMVS2Options(...): none, or one option overridden
GivenOptions ==
    { [key \in {} |-> PyInt(0)] } \cup
    { key :> v : key \in Keys, v \in PyValues }

\* run_pmvs has reached the call of write_options_file (line 205) in a
\* caller-supplied working directory, with options built by the caller
InitOptions ==
    /\ numCameras \in 0..MaxCameras
    /\ distCoffs = [c \in 0..(numCameras - 1) |-> <<0, 0, 0, 0, 0>>]
    /\ \E given \in GivenOptions :
          options = PMVS2Options(PresetCameras, given)
    /\ tempMode = FALSE
    /\ pc = "options_open"
    /\ workDirExists = TRUE
    /\ subdirs = {"visualize", "txt", "models"}
    /\ ppmFiles = 0..(numCameras - 1)
    /\ txtFiles = 0..(numCameras - 1)
    /\ workFiles = {}
    /\ optionLines = <<>>
    /\ visLines = <<>>
    /\ convI = numCameras
    /\ txtI = numCameras
    /\ optI = 1
    /\ visC = 0
    /\ running = {}
    /\ convertCalls = [i \in 1..numCameras |-> i - 1]
    /\ convertStatus = [i \in 1..numCameras |-> 0]
    /\ pmvsCalls = 0
    /\ pmvsOutcome = "none"
    /\ runtimeWritten = FALSE
    /\ destWritten = FALSE
    /\ failure = "none"

NextOptions ==
    \/ OpenOptionsFile
    \/ WriteOptionLine

SpecOptions == InitOptions /\ [][NextOptions]_vars

\* ======================= the claims ========================================
CeilHalf(k) == (k + 1) \div 2
FloorHalf(k) == k \div 2

\* the per-camera lines of vis.dat written so far
VisCameraLines == SubSeq(visLines, 3, Len(visLines))

\* C1: each per-camera line of vis.dat lists exactly K neighbour indices,
\* pairwise distinct and all in [0, N), ceil(K/2) successors of the line's
\* camera followed by floor(K/2) predecessors.
C1_NeighboursDistinctInRange ==
    \A r \in 1..Len(VisCameraLines) :
        LET line == VisCameraLines[r]
            c == line[1]
            nb == SubSeq(line, 3, Len(line))
            k == NumNeighbors
        IN  /\ Len(nb) = k
            /\ \A j \in 1..k : nb[j] \in 0..(numCameras - 1)
            /\ \A i, j \in 1..k : i # j => nb[i] # nb[j]
            /\ \A j \in 1..CeilHalf(k) : nb[j] = (c + j) % numCameras
            /\ \A j \in 1..FloorHalf(k) :
                  nb[CeilHalf(k) + j] = (c - j) % numCameras

\* C9: vis.dat is the line VISDATA, the line N, then one line per camera
\* c = 0..N-1 in increasing order holding c, K, the successors (c+1)%N ..
\* (c+ceil(K/2))%N and then the predecessors (c-1)%N .. (c-floor(K/2))%N;
\* for N=4 and K=2 the line of camera 0 is 0 2 1 3.
C9_VisFileLayout ==
    /\ "vis.dat" \in workFiles =>
          /\ Len(visLines) >= 2
          /\ visLines[1] = "VISDATA"
          /\ visLines[2] = numCameras
    /\ pc = "pmvs_start" => Len(visLines) = numCameras + 2
    /\ \A r \in 1..Len(VisCameraLines) :
          LET line == VisCameraLines[r]
              c == r - 1
              k == NumNeighbors
          IN  /\ Len(line) = k + 2
              /\ line[1] = c
              /\ line[2] = k
              /\ \A j \in 1..CeilHalf(k) : line[2 + j] = (c + j) % numCameras
              /\ \A j \in 1..FloorHalf(k) :
                    line[2 + CeilHalf(k) + j] = (c - j) % numCameras
    /\ (numCameras = 4 /\ NumNeighbors = 2 /\ Len(visLines) >= 3) =>
          visLines[3] = <<0, 2, 1, 3>>

C9_Witness ==
    /\ numCameras = 4
    /\ NumNeighbors = 2
    /\ pc = "pmvs_start"
    /\ Len(visLines) = 6
    /\ visLines[6] = <<3, 2, 0, 2>>

\* C6: write_options_file writes exactly one line for each field other than
\* numNeighbors, in the order level, csize, threshold, wsize, minImageNum,
\* CPU, useVisData, sequence, timages, oimages, each line being the field's
\* name followed by its value(s).
C6_OneLinePerField ==
    LET declared == <<"level", "csize", "threshold", "wsize", "minImageNum",
                      "CPU", "useVisData", "sequence", "timages", "oimages">>
    IN  pc = "vis" =>
          /\ Len(optionLines) = Len(declared)
          /\ \A i \in 1..Len(declared) :
                i <= Len(optionLines) =>
                    optionLines[i] = <<declared[i]>> \o options[declared[i]].val

SomeCameraDistorted ==
    \E c \in 0..(numCameras - 1) : ~Undistorted(distCoffs[c])

\* C2: if a distortion coefficient of any camera is not below the tolerance,
\* set_up_txt_subdirectory fails, and no projection-matrix file has been
\* written when it fails.
C2_NoProjectionFileOnFailure ==
    SomeCameraDistorted =>
        /\ pc \notin {"models", "options_open", "options_loop", "vis",
                      "vis_loop", "pmvs_start", "pmvs_wait", "runtime",
                      "check_ply", "with_exit_ok", "returned"}
        /\ (failure = "distortion" /\ workDirExists) => txtFiles = {}

\* C3: a run whose calibration violates the distortion precondition aborts
\* before any external process is invoked: neither convert nor pmvs2 has been
\* called when it aborts.
C3_AbortBeforeExternalCall ==
    (SomeCameraDistorted /\ Aborted /\ failure = "distortion") =>
        /\ convertCalls = <<>>
        /\ pmvsCalls = 0

C5_TemporaryDirectoryRemoved ==
    /\ (tempMode /\ Terminated) => ~workDirExists
    /\ ~tempMode => workDirExists

C5_Witness ==
    /\ tempMode
    /\ pc = "raised"
    /\ failure = "missing_ply"
    /\ ~workDirExists

\* C7: a non-zero exit status of convert or pmvs2 aborts the run with no
\* retry: after a failed conversion no further conversion and no pmvs2 call
\* is made; after a failed pmvs2 call no destination file is produced; convert
\* is invoked at most once per image and pmvs2 at most once per run.
C7_ExternalFailureAborts ==
    /\ (\E i \in 1..Len(convertStatus) : convertStatus[i] # 0) =>
          /\ Aborted
          /\ failure = "convert"
          /\ convertStatus[Len(convertStatus)] # 0
          /\ Len(convertCalls) = Len(convertStatus)
          /\ running = {}
          /\ pmvsCalls = 0
    /\ pmvsOutcome = "fail" =>
          /\ Aborted
          /\ failure = "pmvs"
          /\ ~destWritten
    /\ \A i, j \in 1..Len(convertCalls) :
          convertCalls[i] = convertCalls[j] => i = j
    /\ pmvsCalls <= 1

C7_Witness ==
    /\ convertStatus = <<0, 1>>
    /\ convertCalls = <<0, 1>>
    /\ numCameras >= 3
    /\ pc = "raised"

\* C8: at most one external process runs at any time and the orchestrator
\* takes no step while one runs; the conversions are made in camera-index
\* order; pmvs2 is started only after all N conversions have completed and
\* the projection files, option.txt and vis.dat are written.
C8_Sequential ==
    /\ [](/\ Cardinality(running) <= 1
          /\ running # {} => pc \in {"convert_wait", "pmvs_wait"}
          /\ \A i \in 1..Len(convertCalls) : convertCalls[i] = i - 1
          /\ Len(convertCalls) - Len(convertStatus) \in {0, 1}
          /\ PmvsProc \in running =>
                /\ Len(convertStatus) = numCameras
                /\ \A i \in 1..numCameras : convertStatus[i] = 0
                /\ ppmFiles = 0..(numCameras - 1)
                /\ txtFiles = 0..(numCameras - 1)
                /\ {"option.txt", "vis.dat"} \subseteq workFiles
                /\ optI = Len(KeyOrder) + 1
                /\ Len(visLines) = numCameras + 2)
    /\ [][running # {} =>
            /\ running' = {}
            /\ convertCalls' = convertCalls
            /\ pmvsCalls' = pmvsCalls
            /\ txtFiles' = txtFiles
            /\ optionLines' = optionLines
            /\ visLines' = visLines]_vars

C8_Witness ==
    /\ PmvsProc \in running
    /\ numCameras >= 2
    /\ Len(convertStatus) = numCameras

\* C10: the runtime report is written after pmvs2 returns successfully and
\* before the artifact is checked or moved: it exists in every run that
\* reaches the artifact check, also when the artifact is missing, and is never
\* written in a run where a builder or pmvs2 fails.
C10_RuntimeReportOrder ==
    /\ runtimeWritten => pmvsOutcome \in {"ok_ply", "ok_noply"}
    /\ pc = "check_ply" => runtimeWritten
    /\ destWritten => runtimeWritten
    /\ failure = "missing_ply" => runtimeWritten
    /\ failure \in {"convert", "distortion", "vis_assert", "pmvs"} =>
          ~runtimeWritten

C10_Witness ==
    /\ failure = "missing_ply"
    /\ runtimeWritten
    /\ pc = "raised"

====
